---- MODULE Spec2Model ----
(* Model of src/main.py: the Telegram traffic-alert bot.  One event loop runs  *)
(* the update handlers (one update at a time), the scheduler task and the      *)
(* message-queue task; traffic queries run in executor threads.                *)
(* Time is counted in units of 30 seconds (the scheduler's poll period).       *)
EXTENDS Integers, Sequences, FiniteSets, TLC

\* ---------------------------------------------------------------- bounds
MaxClock == 1
MaxDispatch == 2

\* ---------------------------------------------------------------- constants
PollPeriod == 1
Minute == 2
Day == 2880
ThrottleMins == 2
OfficeBefore == 30
OfficeAfter == 30
HomeBefore == 60
HomeAfter == 30
TRAFFIC_DELAY_THRESHOLD_MINS == 5
MINOR_DELAY_THRESHOLD_MINS == 2
IstUtcOffset == 660
\* The local time at which the process starts: 08:30 on day 0.
StartClock == 510 * Minute

Users == {1, 2}
Modes == {"office", "home"}
Absent == 0 - 1

STATE_WAITING_OFFICE_TIME == "waiting_office_time"
STATE_WAITING_HOME_TIME == "waiting_home_time"
STATE_WAITING_HOME_LOCATION == "waiting_home_location"
STATE_WAITING_OFFICE_LOCATION == "waiting_office_location"
STATE_SETUP_COMPLETE == "setup_complete"
Unset == "unset"
\* The place of a state in the order of the onboarding questions.
StateRank(st) ==
  CASE st = Unset -> 0
    [] st = STATE_WAITING_OFFICE_TIME -> 1
    [] st = STATE_WAITING_HOME_TIME -> 2
    [] st = STATE_WAITING_HOME_LOCATION -> 3
    [] st = STATE_WAITING_OFFICE_LOCATION -> 4
    [] st = STATE_SETUP_COMPLETE -> 5

\* ---------------------------------------------------------------- inputs
\* Text messages, as character sequences.
Texts ==
  { <<"0","9",":","0","0">>, <<"9",":","0","0">>,
    <<"2","4",":","0","0">>, <<"0","9","0","0">>, <<"0","9",":","6","0">> }
\* Shared locations (latitude, longitude).
Coords == { <<12, 77>> }
\* Offset of the server's local clock from UTC, in time units: UTC or IST.
ServerUtcOffsets == {0}
\* trafficDelayInSeconds of a returned route (Absent: field missing).
DelaySecs == {Absent, 300}
TravelSecs == {1800}

\* ---------------------------------------------------------------- data
VARIABLES user_data, user_state, user_next_checks, message_queue,
          clock, server_offset, handler, sched, workers, proc,
          enqueued, send_log, dispatched

vars == <<user_data, user_state, user_next_checks, message_queue,
          clock, server_offset, handler, sched, workers, proc,
          enqueued, send_log, dispatched>>

\* user_data[chat_id] = {}  (the key is present, the dict is empty)
EmptyData ==
  [exists |-> TRUE, office_start_time |-> Absent, home_start_time |-> Absent,
   home_lat |-> Absent, home_lon |-> Absent,
   office_lat |-> Absent, office_lon |-> Absent]
\* chat_id not in user_data
NoData == [EmptyData EXCEPT !.exists = FALSE]

\* `not data` for data = user_data.get(chat_id): None or an empty dict
NotData(d) ==
  \/ ~d.exists
  \/ /\ d.office_start_time = Absent /\ d.home_start_time = Absent
     /\ d.home_lat = Absent /\ d.home_lon = Absent
     /\ d.office_lat = Absent /\ d.office_lon = Absent

\* A datetime: t counts time units of wall-clock time, aware tells whether it
\* carries a tzinfo (IST) or is naive (server local time).
Naive(t) == [t |-> t, aware |-> FALSE]
Aware(t) == [t |-> t, aware |-> TRUE]
\* An order comparison of a naive with an aware datetime raises TypeError.
CmpRaises(a, b) == a.aware # b.aware
DateOf(t) == t \div Day

NoChecks ==
  [office |-> Naive(0), home |-> Naive(0),
   office_end |-> Naive(0), home_end |-> Naive(0)]

\* A dict keyed by chat_id: keys in insertion order, val[k] the value of key k
\* (NoChecks for a key that is not in the dict).
SeqRange(q) == {q[i] : i \in 1..Len(q)}
HasKey(dict, k) == k \in SeqRange(dict.keys)
DictSet(dict, k, v) ==
  [keys |-> IF HasKey(dict, k) THEN dict.keys ELSE Append(dict.keys, k),
   val |-> [dict.val EXCEPT ![k] = v]]
DictDel(dict, k) ==
  [keys |-> SelectSeq(dict.keys, LAMBDA x : x # k),
   val |-> [dict.val EXCEPT ![k] = NoChecks]]
EmptyChecks == [keys |-> <<>>, val |-> [u \in Users |-> NoChecks]]

\* ---------------------------------------------------------------- parsing
Digits == {"0","1","2","3","4","5","6","7","8","9"}
DigitVal(c) ==
  CASE c = "0" -> 0 [] c = "1" -> 1 [] c = "2" -> 2 [] c = "3" -> 3
    [] c = "4" -> 4 [] c = "5" -> 5 [] c = "6" -> 6 [] c = "7" -> 7
    [] c = "8" -> 8 [] c = "9" -> 9
\* value of a 1- or 2-digit field, Absent when it is not one
FieldVal(s) ==
  IF Len(s) = 1 /\ s[1] \in Digits THEN DigitVal(s[1])
  ELSE IF Len(s) = 2 /\ s[1] \in Digits /\ s[2] \in Digits
       THEN 10 * DigitVal(s[1]) + DigitVal(s[2])
       ELSE Absent
\* A parser that takes any two numeric fields for a time of day.
ParseTime_lenient(s) ==
  LET colons == {i \in 1..Len(s) : s[i] = ":"}
  IN IF Cardinality(colons) # 1 THEN Absent
     ELSE LET i == CHOOSE j \in colons : TRUE
              h == FieldVal(SubSeq(s, 1, i - 1))
              m == FieldVal(SubSeq(s, i + 1, Len(s)))
          IN IF h = Absent \/ m = Absent THEN Absent
             ELSE (h * 60 + m) * Minute
\* datetime.strptime(time_str, "%H:%M").time(): the time of day in time units,
\* Absent for ValueError.
ParseTime(s) ==
  LET colons == {i \in 1..Len(s) : s[i] = ":"}
  IN IF Cardinality(colons) # 1 THEN Absent
     ELSE LET i == CHOOSE j \in colons : TRUE
              h == FieldVal(SubSeq(s, 1, i - 1))
              m == FieldVal(SubSeq(s, i + 1, Len(s)))
          IN IF h = Absent \/ m = Absent \/ h > 23 \/ m > 59 THEN Absent
             ELSE (h * 60 + m) * Minute

\* ---------------------------------------------------------------- seeding
\* next_check_time: the window on `today`, moved one day on when it is over.
\* raised: the comparison `end_check < now` raised TypeError.
next_check_time(today, now, base_time, before_mins, after_mins) ==
  LET base_datetime == Aware(today * Day + base_time)
      start_check == Aware(base_datetime.t - before_mins * Minute)
      end_check == Aware(base_datetime.t + after_mins * Minute)
  IN IF CmpRaises(end_check, now)
     THEN [raised |-> TRUE, start |-> start_check, end |-> end_check]
     ELSE IF end_check.t < now.t
          THEN [raised |-> FALSE, start |-> Aware(start_check.t + Day),
                end |-> Aware(end_check.t + Day)]
          ELSE [raised |-> FALSE, start |-> start_check, end |-> end_check]

\* Lines 171-191 of schedule_tracking for a non-empty profile d at local time
\* c: ok is FALSE when a KeyError or the TypeError of next_check_time ends the
\* function before line 193.
SeedWindows(d, c, offset) ==
  LET now == Naive(c)
      today == DateOf(c - offset + IstUtcOffset)
      o == next_check_time(today, now, d.office_start_time,
                           OfficeBefore, OfficeAfter)
      h == next_check_time(today, now, d.home_start_time,
                           HomeBefore, HomeAfter)
  IN [ok |-> /\ d.office_start_time # Absent /\ ~o.raised
             /\ d.home_start_time # Absent /\ ~h.raised,
      checks |-> [office |-> o.start, home |-> h.start,
                  office_end |-> o.end, home_end |-> h.end]]

\* schedule_tracking(chat_id) run at local time c: the new user_next_checks,
\* unchanged when the function returns early or raises.
schedule_tracking(unc, data, chat_id, c, offset) ==
  IF NotData(data[chat_id]) THEN unc
  ELSE LET w == SeedWindows(data[chat_id], c, offset)
       IN IF w.ok THEN DictSet(unc, chat_id, w.checks) ELSE unc

\* ---------------------------------------------------------------- rescheduling
\* schedule_tracking_for_mode(chat_id, mode) run at local time c.
\* raised: KeyError on a missing departure time or a missing dict entry.
schedule_tracking_for_mode(unc, data, chat_id, mode, c) ==
  IF NotData(data[chat_id]) THEN [raised |-> FALSE, unc |-> unc]
  ELSE
    LET tomorrow == DateOf(c) + 1
        base_time == IF mode = "office" THEN data[chat_id].office_start_time
                     ELSE data[chat_id].home_start_time
        before == IF mode = "office" THEN OfficeBefore ELSE HomeBefore
        after == IF mode = "office" THEN OfficeAfter ELSE HomeAfter
        start_check == Naive(tomorrow * Day + base_time - before * Minute)
        end_check == Naive(tomorrow * Day + base_time + after * Minute)
        old == unc.val[chat_id]
    IN IF base_time = Absent \/ ~HasKey(unc, chat_id)
       THEN [raised |-> TRUE, unc |-> unc]
       ELSE [raised |-> FALSE,
             unc |-> [unc EXCEPT !.val[chat_id] =
                        IF mode = "office"
                        THEN [old EXCEPT !.office = start_check,
                                         !.office_end = end_check]
                        ELSE [old EXCEPT !.home = start_check,
                                         !.home_end = end_check]]]

\* ---------------------------------------------------------------- scheduler
\* What one (chat_id, mode) evaluation of a tick decides, lines 252-261 and
\* 264-273: "raise" (TypeError), "fire", "reschedule" or "none".
WindowDecision(start, end, now) ==
  IF CmpRaises(start, now) THEN "raise"
  ELSE IF start.t <= now.t
       THEN IF CmpRaises(now, end) THEN "raise"
            ELSE IF now.t <= end.t THEN "fire"
                 ELSE "reschedule"
       ELSE IF CmpRaises(now, end) THEN "raise"
            ELSE IF now.t > end.t THEN "reschedule" ELSE "none"

\* The dict that the loop variable `checks` of an item refers to: the live
\* entry of user_next_checks, or the replaced dict it was taken from.
ChecksOf(unc, item) ==
  IF item.alias THEN unc.val[item.chat_id] ELSE item.checks

\* list(user_next_checks.items())
ItemsOf(unc) ==
  [i \in 1..Len(unc.keys) |->
     [chat_id |-> unc.keys[i], checks |-> unc.val[unc.keys[i]], alias |-> TRUE]]

\* The tick runs on from `phase` of the first item until it awaits a traffic
\* check (pc = "await") or ends, by exhaustion or by an exception ("sleep").
RECURSIVE RunTick(_, _, _, _, _, _)
RunTick(unc, items, phase, now, data, c) ==
  IF items = <<>> THEN [unc |-> unc, items |-> <<>>, pc |-> "sleep", mode |-> "none"]
  ELSE
    LET item == Head(items)
        chat_id == item.chat_id
        checks == ChecksOf(unc, item)
        abort == [unc |-> unc, items |-> <<>>, pc |-> "sleep", mode |-> "none"]
    IN IF phase = "begin" /\ NotData(data[chat_id])
       THEN IF HasKey(unc, chat_id)
            THEN RunTick(DictDel(unc, chat_id), Tail(items), "begin", now, data, c)
            ELSE abort
       ELSE
         LET mode == IF phase = "begin" THEN "office" ELSE "home"
             decision == IF mode = "office"
                         THEN WindowDecision(checks.office, checks.office_end, now)
                         ELSE WindowDecision(checks.home, checks.home_end, now)
             r == schedule_tracking_for_mode(unc, data, chat_id, mode, c)
             rest == IF mode = "office" THEN items ELSE Tail(items)
             next == IF mode = "office" THEN "home" ELSE "begin"
         IN CASE decision = "raise" -> abort
              [] decision = "fire" ->
                   [unc |-> unc, items |-> items, pc |-> "await", mode |-> mode]
              [] decision = "reschedule" ->
                   IF r.raised THEN abort
                   ELSE RunTick(r.unc, rest, next, now, data, c)
              [] OTHER -> RunTick(unc, rest, next, now, data, c)

\* Lines 258 and 270, after the awaited check returned: the throttle update,
\* then the rest of the tick.
ResumeTick(unc, items, mode, now, data, c) ==
  LET chat_id == Head(items).chat_id
      old == unc.val[chat_id]
      next_check == Naive(now.t + ThrottleMins * Minute)
      unc2 == [unc EXCEPT !.val[chat_id] =
                 IF mode = "office" THEN [old EXCEPT !.office = next_check]
                 ELSE [old EXCEPT !.home = next_check]]
  IN IF ~HasKey(unc, chat_id)
     THEN [unc |-> unc, items |-> <<>>, pc |-> "sleep", mode |-> "none"]
     ELSE IF mode = "office" THEN RunTick(unc2, items, "home", now, data, c)
          ELSE RunTick(unc2, Tail(items), "begin", now, data, c)

\* ---------------------------------------------------------------- traffic query
\* A classification whose thresholds are exclusive.
Classify_strict(delay_mins) ==
  IF delay_mins > TRAFFIC_DELAY_THRESHOLD_MINS THEN "urgent"
  ELSE IF delay_mins > MINOR_DELAY_THRESHOLD_MINS THEN "minor"
       ELSE "clear"
\* The if/elif/else of lines 334-359.
Classify(delay_mins) ==
  IF delay_mins >= TRAFFIC_DELAY_THRESHOLD_MINS THEN "urgent"
  ELSE IF delay_mins >= MINOR_DELAY_THRESHOLD_MINS THEN "minor"
       ELSE "clear"

\* What the provider call can come to.
Responses ==
  [type : {"route"}, delay : DelaySecs, travel : TravelSecs]
  \cup [type : {"no_routes", "bad_status", "exception", "malformed"},
        delay : {Absent}, travel : {Absent}]

\* A returned route and a failed call.
LiveResponses ==
  {r \in Responses : r.type = "exception" \/ (r.type = "route" /\ r.delay = 300)}

\* The message send_tomtom_update composes for a response.
MessageFor(chat_id, mode, resp) ==
  LET delay_seconds == IF resp.delay = Absent THEN 0 ELSE resp.delay
      delay_mins == delay_seconds \div 60
  IN CASE resp.type = "route" ->
            [chat_id |-> chat_id, mode |-> mode, kind |-> Classify(delay_mins),
             delay_mins |-> delay_mins, travel_mins |-> resp.travel \div 60,
             seq |-> 0]
       [] resp.type = "no_routes" ->
            [chat_id |-> chat_id, mode |-> mode, kind |-> "no_route",
             delay_mins |-> Absent, travel_mins |-> Absent, seq |-> 0]
       [] resp.type = "bad_status" ->
            [chat_id |-> chat_id, mode |-> mode, kind |-> "bad_status",
             delay_mins |-> Absent, travel_mins |-> Absent, seq |-> 0]
       [] OTHER ->
            [chat_id |-> chat_id, mode |-> "none", kind |-> "error",
             delay_mins |-> Absent, travel_mins |-> Absent, seq |-> 0]

\* Lines 295-304: every coordinate the route needs is stored.
HasCoords(d) ==
  /\ d.home_lat # Absent /\ d.home_lon # Absent
  /\ d.office_lat # Absent /\ d.office_lon # Absent

\* An executor thread running send_tomtom_update(chat_id, mode); had_profile
\* and response record what it was started with and what the provider said.
NoWorker ==
  [pc |-> "none", chat_id |-> 0, mode |-> "none", had_profile |-> FALSE,
   response |-> "none"]
NewWorker(chat_id, mode, data) ==
  [pc |-> "queued", chat_id |-> chat_id, mode |-> mode,
   had_profile |-> ~NotData(data[chat_id]), response |-> "none"]
Callers == {"scheduler", "test"}

\* ---------------------------------------------------------------- delivery queue
\* A put that places the item at the head of the queue.
QueuePut_front(q, item) == <<item>> \o q
\* message_queue.put(item)
QueuePut(q, item) == Append(q, item)
\* message_queue.get_nowait() on a non-empty queue
QueueGet(q) == [item |-> Head(q), rest |-> Tail(q)]
\* An except branch that puts the failed item back on the queue.
QueueAfterFailure_requeue(q, item) == Append(q, item)
\* The except branch of message_queue_processor: the queue after a failed send
\* of item, and the position the loop is left in.
QueueAfterFailure(q, item) == q
ProcAfterFailure == "idle"
\* An except branch that only logs the error.
ErrorPuts_silent(chat_id) == <<>>
\* What the except branch of send_tomtom_update puts on the queue.
ErrorPuts(chat_id) ==
  << [chat_id |-> chat_id, mode |-> "none", kind |-> "error",
      delay_mins |-> Absent, travel_mins |-> Absent, seq |-> 0] >>
\* What lines 320-368 put on the queue for a response that raises nothing.
ResponsePuts(chat_id, mode, resp) == << MessageFor(chat_id, mode, resp) >>

\* The messages in the order they are put, numbered from n + 1 on.
Stamp(items, n) ==
  [i \in 1..Len(items) |-> [items[i] EXCEPT !.seq = n + i]]

RECURSIVE PutAll(_, _)
PutAll(q, items) ==
  IF items = <<>> THEN q ELSE PutAll(QueuePut(q, Head(items)), Tail(items))

\* ---------------------------------------------------------------- initial state
IdleHandler == [pc |-> "idle", chat_id |-> 0]
NoMessage ==
  [chat_id |-> 0, mode |-> "none", kind |-> "none",
   delay_mins |-> Absent, travel_mins |-> Absent, seq |-> 0]
SleepUntil(t) ==
  [pc |-> "sleep", wake_at |-> t, now |-> Naive(0), items |-> <<>>,
   mode |-> "none"]

Init ==
  /\ user_data = [u \in Users |-> NoData]
  /\ user_state = [u \in Users |-> Unset]
  /\ user_next_checks = EmptyChecks
  /\ message_queue = <<>>
  /\ clock = StartClock
  /\ server_offset \in ServerUtcOffsets
  /\ handler = IdleHandler
  /\ sched = SleepUntil(StartClock)
  /\ workers = [w \in Callers |-> NoWorker]
  /\ proc = [pc |-> "idle", item |-> NoMessage, last |-> "none"]
  /\ enqueued = 0
  /\ send_log = <<>>
  /\ dispatched = 0

\* ---------------------------------------------------------------- handlers
\* A /start that goes back to the first question and keeps the stored profile.
start_keep(chat_id) ==
  /\ handler.pc = "idle"
  /\ user_state' = [user_state EXCEPT ![chat_id] = STATE_WAITING_OFFICE_TIME]
  /\ user_data' = [user_data EXCEPT ![chat_id].exists = TRUE]
  /\ UNCHANGED <<user_next_checks, message_queue, clock, server_offset,
                 handler, sched, workers, proc, enqueued, send_log, dispatched>>

\* /start
start(chat_id) ==
  /\ handler.pc = "idle"
  /\ user_state' = [user_state EXCEPT ![chat_id] = STATE_WAITING_OFFICE_TIME]
  /\ user_data' = [user_data EXCEPT ![chat_id] = EmptyData]
  /\ UNCHANGED <<user_next_checks, message_queue, clock, server_offset,
                 handler, sched, workers, proc, enqueued, send_log, dispatched>>

\* A text handler that moves on to the next question whatever the text is, and
\* stores the time only when the text is one.
message_handler_advance(chat_id, time_str) ==
  /\ handler.pc = "idle"
  /\ LET current_state == user_state[chat_id]
         parsed == ParseTime(time_str)
     IN IF current_state = STATE_WAITING_OFFICE_TIME
        THEN /\ user_data' = [user_data EXCEPT
                                ![chat_id].office_start_time = parsed]
             /\ user_state' = [user_state EXCEPT
                                 ![chat_id] = STATE_WAITING_HOME_TIME]
        ELSE IF current_state = STATE_WAITING_HOME_TIME
        THEN /\ user_data' = [user_data EXCEPT
                                ![chat_id].home_start_time = parsed]
             /\ user_state' = [user_state EXCEPT
                                 ![chat_id] = STATE_WAITING_HOME_LOCATION]
        ELSE UNCHANGED <<user_data, user_state>>
  /\ UNCHANGED <<user_next_checks, message_queue, clock, server_offset,
                 handler, sched, workers, proc, enqueued, send_log, dispatched>>

\* A text message: handle_office_time, handle_home_time or the /start hint.
message_handler(chat_id, time_str) ==
  /\ handler.pc = "idle"
  /\ LET current_state == user_state[chat_id]
         parsed == ParseTime(time_str)
     IN IF current_state = STATE_WAITING_OFFICE_TIME /\ parsed # Absent
        THEN /\ user_data' = [user_data EXCEPT
                                ![chat_id].office_start_time = parsed]
             /\ user_state' = [user_state EXCEPT
                                 ![chat_id] = STATE_WAITING_HOME_TIME]
        ELSE IF current_state = STATE_WAITING_HOME_TIME /\ parsed # Absent
        THEN /\ user_data' = [user_data EXCEPT
                                ![chat_id].home_start_time = parsed]
             /\ user_state' = [user_state EXCEPT
                                 ![chat_id] = STATE_WAITING_HOME_LOCATION]
        ELSE UNCHANGED <<user_data, user_state>>
  /\ UNCHANGED <<user_next_checks, message_queue, clock, server_offset,
                 handler, sched, workers, proc, enqueued, send_log, dispatched>>

\* A location message, up to the await of the reply (line 145).
location_handler(chat_id, loc) ==
  /\ handler.pc = "idle"
  /\ LET current_state == user_state[chat_id]
     IN IF current_state = STATE_WAITING_HOME_LOCATION
        THEN /\ user_data' = [user_data EXCEPT ![chat_id].home_lat = loc[1],
                                               ![chat_id].home_lon = loc[2]]
             /\ user_state' = [user_state EXCEPT
                                 ![chat_id] = STATE_WAITING_OFFICE_LOCATION]
             /\ UNCHANGED handler
        ELSE IF current_state = STATE_WAITING_OFFICE_LOCATION
        THEN /\ user_data' = [user_data EXCEPT ![chat_id].office_lat = loc[1],
                                               ![chat_id].office_lon = loc[2]]
             /\ user_state' = [user_state EXCEPT
                                 ![chat_id] = STATE_SETUP_COMPLETE]
             /\ handler' = [pc |-> "location_reply", chat_id |-> chat_id]
        ELSE UNCHANGED <<user_data, user_state, handler>>
  /\ UNCHANGED <<user_next_checks, message_queue, clock, server_offset,
                 sched, workers, proc, enqueued, send_log, dispatched>>

\* The scheduler's pending items after schedule_tracking gave chat_id a new
\* dict: their `checks` keep referring to the dict that was replaced.
Unalias(items, unc, chat_id) ==
  [i \in 1..Len(items) |->
     IF items[i].chat_id = chat_id /\ items[i].alias
     THEN [items[i] EXCEPT !.checks = unc.val[chat_id], !.alias = FALSE]
     ELSE items[i]]

\* location_handler after the reply was sent: schedule_tracking (line 156).
location_handler_seed ==
  /\ handler.pc = "location_reply"
  /\ LET chat_id == handler.chat_id
         replaced == /\ ~NotData(user_data[chat_id])
                     /\ SeedWindows(user_data[chat_id], clock, server_offset).ok
     IN /\ user_next_checks' = schedule_tracking(user_next_checks, user_data,
                                                 chat_id, clock, server_offset)
        /\ sched' = IF replaced
                    THEN [sched EXCEPT !.items =
                            Unalias(sched.items, user_next_checks, chat_id)]
                    ELSE sched
  /\ handler' = IdleHandler
  /\ UNCHANGED <<user_data, user_state, message_queue, clock, server_offset,
                 workers, proc, enqueued, send_log, dispatched>>

\* /test, up to the await of the first reply (lines 441-450).
test_command(chat_id) ==
  /\ handler.pc = "idle"
  /\ handler' = IF NotData(user_data[chat_id])
                   \/ user_state[chat_id] # STATE_SETUP_COMPLETE
                THEN handler
                ELSE [pc |-> "test_reply", chat_id |-> chat_id]
  /\ UNCHANGED <<user_data, user_state, user_next_checks, message_queue, clock,
                 server_offset, sched, workers, proc, enqueued, send_log, dispatched>>

\* /test: send_tomtom_update_async hands the check to the executor (line 453).
test_command_dispatch ==
  /\ handler.pc = "test_reply"
  /\ dispatched < MaxDispatch
  /\ workers["test"].pc = "none"
  /\ workers' = [workers EXCEPT
                   !["test"] = NewWorker(handler.chat_id, "office", user_data)]
  /\ handler' = [handler EXCEPT !.pc = "test_await"]
  /\ dispatched' = dispatched + 1
  /\ UNCHANGED <<user_data, user_state, user_next_checks, message_queue, clock,
                 server_offset, sched, proc, enqueued, send_log>>

\* /test: the awaited executor call returned.
test_command_return ==
  /\ handler.pc = "test_await"
  /\ workers["test"].pc = "done"
  /\ workers' = [workers EXCEPT !["test"] = NoWorker]
  /\ handler' = IdleHandler
  /\ UNCHANGED <<user_data, user_state, user_next_checks, message_queue, clock,
                 server_offset, sched, proc, enqueued, send_log, dispatched>>

\* ---------------------------------------------------------------- scheduler task
\* One run of async_scheduler between two suspension points: from the end of
\* the sleep (line 278), or from the return of an awaited check (lines 256 and
\* 268), to the next await of a check or to the next sleep.
async_scheduler ==
  /\ IF sched.pc = "sleep" THEN clock >= sched.wake_at
     ELSE workers["scheduler"].pc = "done"
  /\ LET now == IF sched.pc = "sleep" THEN Naive(clock) ELSE sched.now
         r == IF sched.pc = "sleep"
              THEN RunTick(user_next_checks, ItemsOf(user_next_checks),
                           "begin", now, user_data, clock)
              ELSE ResumeTick(user_next_checks, sched.items, sched.mode,
                              now, user_data, clock)
     IN /\ r.pc = "await" => dispatched < MaxDispatch
        /\ user_next_checks' = r.unc
        /\ sched' = IF r.pc = "await"
                    THEN [pc |-> "await", wake_at |-> 0, now |-> now,
                          items |-> r.items, mode |-> r.mode]
                    ELSE SleepUntil(clock + PollPeriod)
        /\ workers' = [workers EXCEPT !["scheduler"] =
                         IF r.pc = "await"
                         THEN NewWorker(Head(r.items).chat_id, r.mode, user_data)
                         ELSE NoWorker]
        /\ dispatched' = IF r.pc = "await" THEN dispatched + 1 ELSE dispatched
  /\ UNCHANGED <<user_data, user_state, message_queue, clock, server_offset,
                 handler, proc, enqueued, send_log>>

\* ---------------------------------------------------------------- executor threads
\* send_tomtom_update up to the provider call (lines 289-317): nothing is put
\* without a profile, the except branch runs on a missing coordinate.
send_tomtom_update_begin(caller) ==
  LET w == workers[caller]
      data == user_data[w.chat_id]
      puts == IF NotData(data) THEN <<>>
              ELSE IF ~HasCoords(data) THEN ErrorPuts(w.chat_id)
              ELSE <<>>
      finished == NotData(data) \/ ~HasCoords(data)
  IN /\ w.pc = "queued"
     /\ workers' = [workers EXCEPT
                      ![caller].pc = IF finished THEN "done" ELSE "request"]
     /\ message_queue' = PutAll(message_queue, Stamp(puts, enqueued))
     /\ enqueued' = enqueued + Len(puts)
     /\ UNCHANGED <<user_data, user_state, user_next_checks, clock,
                    server_offset, handler, sched, proc, send_log, dispatched>>

\* send_tomtom_update from the provider's answer on (lines 317-373).
send_tomtom_update_end(caller, resp) ==
  LET w == workers[caller]
      puts == IF resp.type \in {"exception", "malformed"}
              THEN ErrorPuts(w.chat_id)
              ELSE ResponsePuts(w.chat_id, w.mode, resp)
  IN /\ w.pc = "request"
     /\ workers' = [workers EXCEPT ![caller].pc = "done",
                                   ![caller].response = resp.type]
     /\ message_queue' = PutAll(message_queue, Stamp(puts, enqueued))
     /\ enqueued' = enqueued + Len(puts)
     /\ UNCHANGED <<user_data, user_state, user_next_checks, clock,
                    server_offset, handler, sched, proc, send_log, dispatched>>

\* ---------------------------------------------------------------- queue task
\* message_queue_processor: get_nowait and the call of send_message.
processor_get ==
  /\ proc.pc = "idle"
  /\ message_queue # <<>>
  /\ LET g == QueueGet(message_queue)
     IN /\ message_queue' = g.rest
        /\ proc' = [proc EXCEPT !.pc = "sending", !.item = g.item]
        /\ send_log' = Append(send_log, g.item.seq)
  /\ UNCHANGED <<user_data, user_state, user_next_checks, clock, server_offset,
                 handler, sched, workers, enqueued, dispatched>>

\* send_message returned: task_done, back to the head of the loop.
processor_sent ==
  /\ proc.pc = "sending"
  /\ proc' = [pc |-> "idle", item |-> NoMessage, last |-> "sent"]
  /\ UNCHANGED <<user_data, user_state, user_next_checks, message_queue, clock,
                 server_offset, handler, sched, workers, enqueued, send_log, dispatched>>

\* send_message raised: the except branch (lines 391-393).
processor_failed ==
  /\ proc.pc = "sending"
  /\ message_queue' = QueueAfterFailure(message_queue, proc.item)
  /\ proc' = [pc |-> ProcAfterFailure, item |-> NoMessage, last |-> "failed"]
  /\ UNCHANGED <<user_data, user_state, user_next_checks, clock, server_offset,
                 handler, sched, workers, enqueued, send_log,
                 dispatched>>

\* ---------------------------------------------------------------- time
Elapse ==
  /\ clock < StartClock + MaxClock
  /\ clock' = clock + 1
  /\ UNCHANGED <<user_data, user_state, user_next_checks, message_queue,
                 server_offset, handler, sched, workers, proc, enqueued,
                 send_log, dispatched>>

\* ---------------------------------------------------------------- specification
Step(responses) ==
  \/ \E chat_id \in Users : start(chat_id)
  \/ \E chat_id \in Users, time_str \in Texts : message_handler(chat_id, time_str)
  \/ \E chat_id \in Users, loc \in Coords : location_handler(chat_id, loc)
  \/ location_handler_seed
  \/ \E chat_id \in Users : test_command(chat_id)
  \/ test_command_dispatch
  \/ test_command_return
  \/ async_scheduler
  \/ \E caller \in Callers : send_tomtom_update_begin(caller)
  \/ \E caller \in Callers, resp \in responses : send_tomtom_update_end(caller, resp)
  \/ processor_get
  \/ processor_sent
  \/ processor_failed
  \/ Elapse

Next == Step(Responses)

Spec == Init /\ [][Next]_vars

\* The program with the provider's answers narrowed to one route and one
\* failure, under the scheduling the event loop gives the queue task: it is
\* resumed again and again, and every call of send_message returns or raises.
FairNext == Step(LiveResponses)

FairSpec ==
  /\ Init /\ [][FairNext]_vars
  /\ WF_vars(processor_get)
  /\ WF_vars(processor_sent \/ processor_failed)

\* The program with the provider's answers narrowed in the same way, and no
\* assumption on scheduling: what the handlers do to the onboarding state and
\* the profile does not depend on what the provider answers.
NarrowSpec == Init /\ [][FairNext]_vars

\* The program as one user drives it through the onboarding and /test, with
\* the provider returning a route whose delay lies on either side of each
\* threshold and whose travel time is short or long.
ClassifyUsers == {1}
ClassifyDelaySecs == {Absent, 0, 59, 119, 120, 179, 299, 300, 301, 600}
ClassifyTravelSecs == {60, 3600}
ClassifyResponses ==
  [type : {"route"}, delay : ClassifyDelaySecs, travel : ClassifyTravelSecs]

ClassifyNext ==
  \/ \E chat_id \in ClassifyUsers : start(chat_id)
  \/ \E chat_id \in ClassifyUsers, time_str \in Texts :
       message_handler(chat_id, time_str)
  \/ \E chat_id \in ClassifyUsers, loc \in Coords : location_handler(chat_id, loc)
  \/ location_handler_seed
  \/ \E chat_id \in ClassifyUsers : test_command(chat_id)
  \/ test_command_dispatch
  \/ test_command_return
  \/ send_tomtom_update_begin("test")
  \/ \E resp \in ClassifyResponses : send_tomtom_update_end("test", resp)
  \/ processor_get
  \/ processor_sent

ClassifySpec == Init /\ [][ClassifyNext]_vars

\* ---------------------------------------------------------------- properties
QueueSeqs == [i \in 1..Len(message_queue) |-> message_queue[i].seq]
TierKinds == {"urgent", "minor", "clear"}
ErrorKinds == {"no_route", "bad_status", "error"}

\* No user ever has an entry in user_next_checks: next_check_time compares the
\* timezone-aware end_check with the naive now, so schedule_tracking raises
\* TypeError before it stores the windows.
NoWindowSetStored == user_next_checks = EmptyChecks

\* C5: a user has a WindowSet when, and only when, the onboarding reached
\* Complete: once location_handler has returned for a user whose state is
\* Complete, user_next_checks holds that user's four window values, and an
\* entry only ever appears for a user whose state is Complete.
C5_WindowSetWhenComplete ==
  /\ [](\A u \in Users :
          (/\ user_state[u] = STATE_SETUP_COMPLETE
           /\ ~(handler.pc = "location_reply" /\ handler.chat_id = u))
          => HasKey(user_next_checks, u))
  /\ [][\A u \in Users :
          (~HasKey(user_next_checks, u) /\ HasKey(user_next_checks', u))
          => user_state'[u] = STATE_SETUP_COMPLETE]_vars

\* C8: a traffic check started for a user with a stored profile puts exactly
\* one message for that user on the queue in the whole of its run: nothing
\* before the provider call is made, and on its last step one tier message for
\* a returned route and one error message for every failure.
C8_OneMessagePerCheck ==
  [][\A c \in Callers :
       LET w == workers[c]
           n == Len(message_queue')
       IN /\ (w.pc = "queued" /\ workers'[c].pc = "request")
             => message_queue' = message_queue /\ enqueued' = enqueued
          /\ (w.pc \in {"queued", "request"} /\ workers'[c].pc = "done"
              /\ w.had_profile)
             => /\ enqueued' = enqueued + 1
                /\ n = Len(message_queue) + 1
                /\ SubSeq(message_queue', 1, n - 1) = message_queue
                /\ message_queue'[n].chat_id = w.chat_id
                /\ IF workers'[c].response = "route"
                   THEN message_queue'[n].kind \in TierKinds
                   ELSE message_queue'[n].kind \in ErrorKinds]_vars

\* C8 witness: a check for a user with a profile ended in a provider
\* exception and its error message is on the queue.
C8_Witness ==
  \E c \in Callers :
    /\ workers[c].pc = "done" /\ workers[c].had_profile
    /\ workers[c].response = "exception"
    /\ \E i \in 1..Len(message_queue) :
         /\ message_queue[i].chat_id = workers[c].chat_id
         /\ message_queue[i].kind = "error"

\* C9: the messages handed to send_message, followed by the messages still on
\* the queue, are exactly the messages put, each once and in the order of the
\* puts; and every message put is handed to send_message in the end.
C9_ExactlyOnceFifo ==
  /\ [](send_log \o QueueSeqs = [i \in 1..enqueued |-> i])
  /\ \A k \in 1..MaxDispatch : (enqueued >= k) ~> (Len(send_log) >= k)

\* C9 witness: the second message put has been handed to send_message after
\* the first.
C9_Witness == send_log = <<1, 2>> /\ enqueued = 2

\* C10: a step on which send_message fails leaves the queue as it was, without
\* the failed message, calls send_message for nothing, and leaves the consumer
\* at the head of its loop.
C10_FailureDropsMessage ==
  [][(proc.pc = "sending" /\ proc'.last = "failed" /\ proc' # proc)
       => /\ message_queue' = message_queue
          /\ \A i \in 1..Len(message_queue') :
               message_queue'[i].seq # proc.item.seq
          /\ send_log' = send_log
          /\ proc'.pc = "idle"]_vars

\* C10 witness: after the send of the first message failed, the consumer is
\* sending the second one.
C10_Witness ==
  /\ proc.pc = "sending" /\ proc.last = "failed"
  /\ send_log = <<1, 2>> /\ proc.item.seq = 2

\* C12: when location_handler has seeded the windows of a user at time now,
\* each mode's stored window is [base - before, base + after] on today's date
\* if that window's end is not earlier than now, and that window 24 hours
\* later if its end is earlier than now; so its end is not earlier than now.
\* Times are read on the IST wall clock, as is "today".
C12_SeedingLaw ==
  [][(handler.pc = "location_reply" /\ handler'.pc = "idle")
       => LET u == handler.chat_id
              now == clock - server_offset + IstUtcOffset
              Claimed(base_time, before_mins, after_mins) ==
                LET base == DateOf(now) * Day + base_time
                    s0 == base - before_mins * Minute
                    e0 == base + after_mins * Minute
                IN IF e0 < now THEN [s |-> s0 + Day, e |-> e0 + Day]
                   ELSE [s |-> s0, e |-> e0]
              o == Claimed(user_data[u].office_start_time,
                           OfficeBefore, OfficeAfter)
              h == Claimed(user_data[u].home_start_time,
                           HomeBefore, HomeAfter)
              w == user_next_checks'.val[u]
          IN /\ HasKey(user_next_checks', u)
             /\ w.office.t = o.s /\ w.office_end.t = o.e
             /\ w.home.t = h.s /\ w.home_end.t = h.e
             /\ w.office_end.t >= now /\ w.home_end.t >= now]_vars

\* C15: every step that changes a user's onboarding state either moves it to
\* the next state of the order office time, home time, home location, office
\* location, complete, and is then a text or a location message of that user
\* (or the user's first /start), or moves it back, and is then that user's
\* /start, which sets the first state and leaves the profile empty; no step
\* changes the states of two users.
C15_ForwardOnly ==
  [][user_state' # user_state =>
       \A u \in Users :
         LET before == StateRank(user_state[u])
             after == StateRank(user_state'[u])
         IN /\ after > before
               => /\ after = before + 1
                  /\ \/ before = 0 /\ start(u)
                     \/ before >= 1 /\ \E time_str \in Texts :
                                          message_handler(u, time_str)
                     \/ before >= 1 /\ \E loc \in Coords :
                                          location_handler(u, loc)
            /\ after < before
               => /\ start(u)
                  /\ user_state'[u] = STATE_WAITING_OFFICE_TIME
                  /\ user_data'[u] = EmptyData
            /\ after # before
               => \A v \in Users \ {u} : user_state'[v] = user_state[v]]_vars

\* C15 witness: a user who completed the onboarding and had a check queued is
\* back at the first question with an empty profile, while the other user is
\* complete.
C15_Witness ==
  \E u \in Users :
    /\ user_state[u] = STATE_WAITING_OFFICE_TIME
    /\ user_data[u] = EmptyData
    /\ \E i \in 1..Len(message_queue) :
         message_queue[i].chat_id = u /\ message_queue[i].kind \in TierKinds
    /\ \E v \in Users \ {u} : user_state[v] = STATE_SETUP_COMPLETE

\* C16: in every state each user's profile holds what the user's onboarding
\* state requires: the office time past the first state, the home time past
\* the second, the home coordinates past the third, and both times and both
\* pairs of coordinates when the state is complete.
C16_ProfileHoldsRequired ==
  \A u \in Users :
    LET d == user_data[u]
        r == StateRank(user_state[u])
    IN /\ r >= 1 => d.exists
       /\ r >= 2 => d.office_start_time # Absent
       /\ r >= 3 => d.home_start_time # Absent
       /\ r >= 4 => d.home_lat # Absent /\ d.home_lon # Absent
       /\ r = 5 => d.office_lat # Absent /\ d.office_lon # Absent

\* C16 witness: one user is complete with all fields stored while the other
\* waits for the office location with the home coordinates stored.
C16_Witness ==
  \E u \in Users, v \in Users :
    /\ user_state[u] = STATE_SETUP_COMPLETE
    /\ user_data[u].office_start_time # Absent
    /\ user_data[u].home_start_time # Absent
    /\ HasCoords(user_data[u])
    /\ user_state[v] = STATE_WAITING_OFFICE_LOCATION
    /\ user_data[v].home_lat # Absent /\ user_data[v].office_lat = Absent

\* Texts that are no time of day: hour 24, no colon, minute 60.
C17_InvalidTexts ==
  { <<"2","4",":","0","0">>, <<"0","9","0","0">>, <<"0","9",":","6","0">> }

\* C17: handling a text that is no HH:MM time of day, received while the user
\* is asked for the office time or the home time, changes neither any
\* onboarding state nor any stored profile nor any stored window: no step that
\* changes one of them is the handling of such a text.
C17_InvalidTextKeepsState ==
  /\ [](C17_InvalidTexts \subseteq Texts)
  /\ [][\/ UNCHANGED <<user_state, user_data, user_next_checks>>
        \/ \A u \in Users, time_str \in C17_InvalidTexts :
             user_state[u] \in {STATE_WAITING_OFFICE_TIME, STATE_WAITING_HOME_TIME}
             => ~message_handler(u, time_str)]_vars

\* C17 witness: a user is asked for the home time with the office time stored
\* and no handler running, so the next text is handled in that state.
C17_Witness ==
  \E u \in Users :
    /\ handler.pc = "idle"
    /\ user_state[u] = STATE_WAITING_HOME_TIME
    /\ user_data[u].office_start_time # Absent
    /\ user_data[u].home_start_time = Absent
    /\ user_next_checks = EmptyChecks

====
